---- MODULE Spec2Model ----
(***************************************************************************)
(* tf2_sensor_msgs: doTransform for sensor_msgs::PointCloud2, Imu and      *)
(* MagneticField (tf2_sensor_msgs.h), against the doTransform contract of  *)
(* tf2/transform_functions.h.                                              *)
(*                                                                         *)
(* Scalars.  The code computes in float (point cloud) and double (Imu,     *)
(* MagneticField).  The model computes the same expressions exactly, over  *)
(* numbers (a + b*sqrt(2)) / Den written <<a, b>>.  They contain the       *)
(* integers, the halves and sqrt(2)/2, hence the 90 degree and 120 degree  *)
(* rotations; on these values every product taken below is exact.          *)
(* Rounding of the floating-point formats is not modelled.                 *)
(***************************************************************************)
EXTENDS Integers, Sequences, FiniteSets, TLC

\* ------------------------------------------------------------------ scalars
Den == 16

Num(i) == <<i * Den, 0>>
Zero == Num(0)
One == Num(1)
Two == Num(2)
Half == <<Den \div 2, 0>>
Rt2h == <<0, Den \div 2>>

NAdd(p, q) == <<p[1] + q[1], p[2] + q[2]>>
NNeg(p) == <<-p[1], -p[2]>>
NSub(p, q) == NAdd(p, NNeg(q))
IDiv(n, d) == IF d < 0 THEN (IF n <= 0 THEN (-n) \div (-d) ELSE -(n \div (-d))) ELSE (IF n >= 0 THEN n \div d ELSE -((-n) \div d))
NMul(p, q) == <<IDiv(p[1] * q[1] + 2 * p[2] * q[2], Den), IDiv(p[1] * q[2] + p[2] * q[1], Den)>>
\* p / n for n # 0, through 1 / (c + d*sqrt(2)) = (c - d*sqrt(2)) / (c*c - 2*d*d)
NDiv(p, n) == <<IDiv(Den * (p[1] * n[1] - 2 * p[2] * n[2]), n[1] * n[1] - 2 * n[2] * n[2]), IDiv(Den * (p[2] * n[1] - p[1] * n[2]), n[1] * n[1] - 2 * n[2] * n[2])>>

\* ----------------------------------------------------- Eigen::Matrix<.,3,1>
Vec(a, b, c) == [x |-> a, y |-> b, z |-> c]
VAdd(u, v) == Vec(NAdd(u.x, v.x), NAdd(u.y, v.y), NAdd(u.z, v.z))

\* ----------------------------------------------------- Eigen::Matrix<.,3,3>
Sum3(f) == NAdd(NAdd(f[1], f[2]), f[3])
RowCol(A, B, i, j) == Sum3(<<NMul(A[i][1], B[1][j]), NMul(A[i][2], B[2][j]), NMul(A[i][3], B[3][j])>>)
MatMul(A, B) ==
  << <<RowCol(A, B, 1, 1), RowCol(A, B, 1, 2), RowCol(A, B, 1, 3)>>,
     <<RowCol(A, B, 2, 1), RowCol(A, B, 2, 2), RowCol(A, B, 2, 3)>>,
     <<RowCol(A, B, 3, 1), RowCol(A, B, 3, 2), RowCol(A, B, 3, 3)>> >>
RowVec(A, v, i) == Sum3(<<NMul(A[i][1], v.x), NMul(A[i][2], v.y), NMul(A[i][3], v.z)>>)
MatVec(A, v) == Vec(RowVec(A, v, 1), RowVec(A, v, 2), RowVec(A, v, 3))

\* ------------------------------------------------------- Eigen::Quaternion
Quat(qw, qx, qy, qz) == [w |-> qw, x |-> qx, y |-> qy, z |-> qz]

\* Eigen::Quaternion(w, x, y, z) built from the message's rotation fields
QuatFromMsg(m) == Quat(m.w, m.x, m.y, m.z)

\* QuaternionBase::operator* (Hamilton product)
QMul(a, b) ==
  Quat(NSub(NSub(NSub(NMul(a.w, b.w), NMul(a.x, b.x)), NMul(a.y, b.y)), NMul(a.z, b.z)),
       NSub(NAdd(NAdd(NMul(a.w, b.x), NMul(a.x, b.w)), NMul(a.y, b.z)), NMul(a.z, b.y)),
       NSub(NAdd(NAdd(NMul(a.w, b.y), NMul(a.y, b.w)), NMul(a.z, b.x)), NMul(a.x, b.z)),
       NSub(NAdd(NAdd(NMul(a.w, b.z), NMul(a.z, b.w)), NMul(a.x, b.y)), NMul(a.y, b.x)))

QConjugate(q) == Quat(q.w, NNeg(q.x), NNeg(q.y), NNeg(q.z))
SquaredNorm(q) == NAdd(NAdd(NAdd(NMul(q.w, q.w), NMul(q.x, q.x)), NMul(q.y, q.y)), NMul(q.z, q.z))

\* QuaternionBase::inverse(): conjugate / squaredNorm, the zero quaternion
\* when the squared norm is zero.
QInverse(q) ==
  LET n2 == SquaredNorm(q)
      c == QConjugate(q)
  IN  IF n2 # Zero THEN Quat(NDiv(c.w, n2), NDiv(c.x, n2), NDiv(c.y, n2), NDiv(c.z, n2))
      ELSE Quat(Zero, Zero, Zero, Zero)

\* QuaternionBase::toRotationMatrix()
ToRotationMatrix(q) ==
  LET tx == NMul(Two, q.x)
      ty == NMul(Two, q.y)
      tz == NMul(Two, q.z)
      twx == NMul(tx, q.w)
      twy == NMul(ty, q.w)
      twz == NMul(tz, q.w)
      txx == NMul(tx, q.x)
      txy == NMul(ty, q.x)
      txz == NMul(tz, q.x)
      tyy == NMul(ty, q.y)
      tyz == NMul(tz, q.y)
      tzz == NMul(tz, q.z)
  IN  << <<NSub(One, NAdd(tyy, tzz)), NSub(txy, twz), NAdd(txz, twy)>>,
         <<NAdd(txy, twz), NSub(One, NAdd(txx, tzz)), NSub(tyz, twx)>>,
         <<NSub(txz, twy), NAdd(tyz, twx), NSub(One, NAdd(txx, tyy))>> >>

\* variant: the product taken as Quaternion * Translation, which rotates the
\* translation as well
AffineFromRotatedTranslation(translation, q) == [linear |-> ToRotationMatrix(q), translation |-> MatVec(ToRotationMatrix(q), translation)]

\* Eigen::Transform<.,3,Affine>: Translation * Quaternion sets the linear part
\* to the quaternion's rotation matrix and the translation part to the vector
AffineFrom(translation, q) == [linear |-> ToRotationMatrix(q), translation |-> translation]

\* Eigen::Transform<double,3,Affine> t(r): a rotation with no translation
AffineFromRotation(q) == [linear |-> ToRotationMatrix(q), translation |-> Vec(Zero, Zero, Zero)]

\* Transform * Vector3: linear * v + translation
AffineApply(t, v) == VAdd(MatVec(t.linear, v), t.translation)

\* Eigen::Map<Matrix<double,3,3,RowMajor>> over a boost::array<double, 9>
MapRowMajor(buf) == << <<buf[1], buf[2], buf[3]>>, <<buf[4], buf[5], buf[6]>>, <<buf[7], buf[8], buf[9]>> >>
UnmapRowMajor(M) == <<M[1][1], M[1][2], M[1][3], M[2][1], M[2][2], M[2][3], M[3][1], M[3][2], M[3][3]>>

\* variant: r * cov_in * r, the inverse forgotten
CovProductNoInverse(cov_in, r) == MatMul(MatMul(ToRotationMatrix(r), cov_in), ToRotationMatrix(r))

\* r * cov_in * r.inverse(): rotation * matrix is toRotationMatrix() * matrix,
\* matrix * rotation is matrix * toRotationMatrix(); each product is returned
\* by value
CovProduct(cov_in, r) == MatMul(MatMul(ToRotationMatrix(r), cov_in), ToRotationMatrix(QInverse(r)))

\* ------------------------------------------------------------------ bounds
MaxPoints == 2
MaxCalls == 2

\* ---------------------------------------------------------------- messages
\* References to messages are slots of mem; data_in and data_out of one call
\* may name the same slot.
Slots == 1..2
Frames == {"map", "odom"}

Header(q, s, f) == [seq |-> q, stamp |-> s, frame_id |-> f]

\* geometry_msgs::TransformStamped
TransformStamped(h, c, tr, rot) == [header |-> h, child_frame_id |-> c, transform |-> [translation |-> tr, rotation |-> rot]]

\* sensor_msgs::PointCloud2: layout stands for height, width, fields,
\* is_bigendian, point_step, row_step and is_dense; a point of data carries
\* the float channels x, y, z and one further channel c
PointCloud2(h, l, pts) == [type |-> "PointCloud2", header |-> h, layout |-> l, data |-> pts]
\* sensor_msgs::Imu
Imu(h, o, oc, av, avc, la, lac) == [type |-> "Imu", header |-> h, orientation |-> o, orientation_covariance |-> oc, angular_velocity |-> av, angular_velocity_covariance |-> avc, linear_acceleration |-> la, linear_acceleration_covariance |-> lac]
\* sensor_msgs::MagneticField
MagneticField(h, m, mc) == [type |-> "MagneticField", header |-> h, magnetic_field |-> m, magnetic_field_covariance |-> mc]

getTimestamp(p) == p.header.stamp
getFrameId(p) == p.header.frame_id

\* Each statement of a body takes the memory it finds to the memory it leaves.
\* p_out.header = t_in.header (likewise imu_out.header = t_in.header and mag_out.header)
HeaderStmt(m, data_out, t_in) == [m EXCEPT ![data_out].header = t_in.header]

\* -------------------------------------------- doTransform<PointCloud2>
\* variant: y_in is never advanced and keeps reading the first point
PointReadStuckY(m, p_in, i, t) == AffineApply(t, Vec(m[p_in].data[i].x, m[p_in].data[1].y, m[p_in].data[i].z))

\* point = t * Eigen::Vector3f(*x_in, *y_in, *z_in) at index i
PointRead(m, p_in, i, t) == AffineApply(t, Vec(m[p_in].data[i].x, m[p_in].data[i].y, m[p_in].data[i].z))

\* *x_out = point.x(); *y_out = point.y(); *z_out = point.z() at index i
PointStore(m, p_out, i, point) == [m EXCEPT ![p_out].data[i].x = point.x, ![p_out].data[i].y = point.y, ![p_out].data[i].z = point.z]

\* variant: no local `point`; each coordinate is computed from the memory as
\* the previous store left it
TransformPointAtInPlace(m, p_in, p_out, i, t) ==
  LET m1 == [m EXCEPT ![p_out].data[i].x = PointRead(m, p_in, i, t).x]
      m2 == [m1 EXCEPT ![p_out].data[i].y = PointRead(m1, p_in, i, t).y]
  IN  [m2 EXCEPT ![p_out].data[i].z = PointRead(m2, p_in, i, t).z]

\* One iteration of the loop: the point is read and transformed into the
\* local `point`, then stored
TransformPointAt(m, p_in, p_out, i, t) == PointStore(m, p_out, i, PointRead(m, p_in, i, t))

RECURSIVE CloudLoop(_, _, _, _, _)
CloudLoop(m, p_in, p_out, i, t) ==
  IF i > Len(m[p_in].data) THEN m
  ELSE CloudLoop(TransformPointAt(m, p_in, p_out, i, t), p_in, p_out, i + 1, t)

\* variant: the header of the input is kept
CloudPrologueKeepHeader(m, p_in, p_out, t_in) == [m EXCEPT ![p_out] = m[p_in]]

\* p_out = p_in; p_out.header = t_in.header
CloudPrologue(m, p_in, p_out, t_in) == HeaderStmt([m EXCEPT ![p_out] = m[p_in]], p_out, t_in)

\* variant: the quaternion built from (x, y, z, w) where Eigen takes (w, x, y, z)
CloudAffineXYZW(t_in) == AffineFrom(t_in.transform.translation, Quat(t_in.transform.rotation.x, t_in.transform.rotation.y, t_in.transform.rotation.z, t_in.transform.rotation.w))

CloudAffine(t_in) == AffineFrom(t_in.transform.translation, QuatFromMsg(t_in.transform.rotation))

doTransformPointCloud2(m, p_in, p_out, t_in) ==
  CloudLoop(CloudPrologue(m, p_in, p_out, t_in), p_in, p_out, 1, CloudAffine(t_in))

\* ------------------------------------------------- transformCovariance
\* in and out are the arrays `field` of the messages in slots p_in and p_out
transformCovariance(m, p_in, p_out, field, r) ==
  [m EXCEPT ![p_out][field] = UnmapRowMajor(CovProduct(MapRowMajor(m[p_in][field]), r))]

\* ---------------------------------------------------- doTransform<Imu>
\* vel = t * angular_velocity; imu_out.angular_velocity = vel (likewise
\* accel and linear_acceleration, mag and magnetic_field)
VectorStmt(m, data_in, data_out, field, t) == [m EXCEPT ![data_out][field] = AffineApply(t, m[data_in][field])]

\* variant: r * q, the orientation rotated like a vector
OrientationStmtOneSided(m, imu_in, imu_out, r) == [m EXCEPT ![imu_out].orientation = QMul(r, QuatFromMsg(m[imu_in].orientation))]

\* variant: the input orientation built from (x, y, z, w)
OrientationStmtXYZW(m, imu_in, imu_out, r) == [m EXCEPT ![imu_out].orientation = QMul(QMul(r, Quat(m[imu_in].orientation.x, m[imu_in].orientation.y, m[imu_in].orientation.z, m[imu_in].orientation.w)), QInverse(r))]

\* orientation = r * q * r.inverse(); imu_out.orientation = orientation
OrientationStmt(m, imu_in, imu_out, r) == [m EXCEPT ![imu_out].orientation = QMul(QMul(r, QuatFromMsg(m[imu_in].orientation)), QInverse(r))]

ImuBody(m, imu_in, imu_out, r, t) ==
  transformCovariance(
    OrientationStmt(
      transformCovariance(
        VectorStmt(
          transformCovariance(
            VectorStmt(m, imu_in, imu_out, "angular_velocity", t),
            imu_in, imu_out, "angular_velocity_covariance", r),
          imu_in, imu_out, "linear_acceleration", t),
        imu_in, imu_out, "linear_acceleration_covariance", r),
      imu_in, imu_out, r),
    imu_in, imu_out, "orientation_covariance", r)

ImuRotation(t_in) == QuatFromMsg(t_in.transform.rotation)

\* variant: the translation of the transform is kept in t
doTransformImuTranslated(m, imu_in, imu_out, t_in) ==
  ImuBody(HeaderStmt(m, imu_out, t_in), imu_in, imu_out, ImuRotation(t_in), AffineFrom(t_in.transform.translation, ImuRotation(t_in)))

doTransformImu(m, imu_in, imu_out, t_in) ==
  ImuBody(HeaderStmt(m, imu_out, t_in), imu_in, imu_out, ImuRotation(t_in), AffineFromRotation(ImuRotation(t_in)))

\* ------------------------------------------ doTransform<MagneticField>
\* variant: the covariance is copied, not rotated
MagBodyCovarianceCopied(m, mag_in, mag_out, r, t) ==
  [VectorStmt(m, mag_in, mag_out, "magnetic_field", t) EXCEPT ![mag_out].magnetic_field_covariance = m[mag_in].magnetic_field_covariance]

MagBody(m, mag_in, mag_out, r, t) ==
  transformCovariance(VectorStmt(m, mag_in, mag_out, "magnetic_field", t), mag_in, mag_out, "magnetic_field_covariance", r)

MagRotation(t_in) == QuatFromMsg(t_in.transform.rotation)

doTransformMagneticField(m, mag_in, mag_out, t_in) ==
  MagBody(HeaderStmt(m, mag_out, t_in), mag_in, mag_out, MagRotation(t_in), AffineFromRotation(MagRotation(t_in)))

\* template <class T> void doTransform(const T&, T&, const TransformStamped&):
\* the specialization is selected by the type of the data
doTransform(m, data_in, data_out, transform) ==
  IF m[data_in].type = "PointCloud2" THEN doTransformPointCloud2(m, data_in, data_out, transform)
  ELSE IF m[data_in].type = "Imu" THEN doTransformImu(m, data_in, data_out, transform)
  ELSE doTransformMagneticField(m, data_in, data_out, transform)

\* ------------------------------------------------------------------ inputs
\* Unit quaternions: identity, 90 degrees about +Z and 120 degrees about
\* (1,1,1), with their inverses
QId == Quat(One, Zero, Zero, Zero)
Z90 == Quat(Rt2h, Zero, Zero, Rt2h)
Z90inv == Quat(Rt2h, Zero, Zero, NNeg(Rt2h))
D120 == Quat(Half, Half, Half, Half)
D120inv == Quat(Half, NNeg(Half), NNeg(Half), NNeg(Half))
Rots == {QId, Z90, Z90inv, D120, D120inv}

TranslationTo(f) == IF f = "map" THEN Vec(One, Zero, Zero) ELSE Vec(Zero, Two, Num(-1))
Translations == {TranslationTo(f) : f \in Frames} \cup {Vec(Zero, Zero, Zero)}

\* the transforms a lookup into `f` can return
TransformsFor(f) == {TransformStamped(Header(0, 5, f), "sensor", TranslationTo(f), r) : r \in Rots}

SensorHeader == Header(7, 1, "sensor")
Layout == [height |-> 1, is_dense |-> TRUE]
PointAt(i) == [x |-> Num(i), y |-> Num(2 * (i - 1)), z |-> Num(3 * (i - 1)), c |-> Num(10 + i)]
Clouds == {PointCloud2(SensorHeader, Layout, [i \in 1..n |-> PointAt(i)]) : n \in 0..MaxPoints}

Diag123 == <<One, Zero, Zero, Zero, Two, Zero, Zero, Zero, Num(3)>>
Dense == [k \in 1..9 |-> Num(k)]
Sym == <<Two, One, Zero, One, Num(3), Num(-1), Zero, Num(-1), Num(4)>>
Imus == {Imu(SensorHeader, D120, Diag123, Vec(One, Two, Num(3)), Dense, Vec(Zero, Zero, One), Sym),
         Imu(SensorHeader, Z90, Dense, Vec(One, Zero, Zero), Sym, Vec(Num(-1), Two, Zero), Diag123)}
MagneticFields == {MagneticField(SensorHeader, Vec(One, Zero, Zero), Diag123),
                   MagneticField(SensorHeader, Vec(One, Two, Num(3)), Dense)}
Inputs == Clouds \cup Imus \cup MagneticFields

\* what a caller's output object can hold before the call
StaleHeader == Header(3, 2, "stale")
StaleCov == [k \in 1..9 |-> Num(-k)]
StaleVec == Vec(Num(5), Num(6), Num(7))
Stale(type) ==
  IF type = "PointCloud2" THEN PointCloud2(StaleHeader, [height |-> 3, is_dense |-> FALSE], <<[x |-> Num(5), y |-> Num(6), z |-> Num(7), c |-> Num(8)]>>)
  ELSE IF type = "Imu" THEN Imu(StaleHeader, QId, StaleCov, StaleVec, StaleCov, StaleVec, StaleCov)
  ELSE MagneticField(StaleHeader, StaleVec, StaleCov)

\* ------------------------------------------------------------------- state
VARIABLES mem, buffer, calls, job, claimed, local
vars == <<mem, buffer, calls, job, claimed, local>>

Workers == 1..2
NoJob == [active |-> FALSE]
Idle == [busy |-> FALSE]

InitData ==
  /\ \E data \in Inputs : mem = [s \in Slots |-> IF s = 1 THEN data ELSE Stale(data.type)]
  /\ buffer \in [Frames -> UNION {TransformsFor(f) : f \in Frames}]
  /\ \A f \in Frames : buffer[f].header.frame_id = f
  /\ calls = <<>>
  /\ job = NoJob
  /\ claimed = <<>>
  /\ local = [w \in Workers |-> Idle]

Init == InitData

\* a call doTransform(mem[data_in], mem[data_out], buffer[f]); calls records
\* the call and the memory it started from
Call(data_in, data_out, f) == [data_in |-> data_in, data_out |-> data_out, transform |-> buffer[f], before |-> mem]

DoTransformCloud(data_in, data_out, f) ==
  /\ Len(calls) < MaxCalls
  /\ mem[data_in].type = "PointCloud2"
  /\ mem' = doTransformPointCloud2(mem, data_in, data_out, buffer[f])
  /\ calls' = Append(calls, Call(data_in, data_out, f))
  /\ UNCHANGED <<buffer, job, claimed, local>>

DoTransformImu(data_in, data_out, f) ==
  /\ Len(calls) < MaxCalls
  /\ mem[data_in].type = "Imu"
  /\ mem' = doTransformImu(mem, data_in, data_out, buffer[f])
  /\ calls' = Append(calls, Call(data_in, data_out, f))
  /\ UNCHANGED <<buffer, job, claimed, local>>

DoTransformMag(data_in, data_out, f) ==
  /\ Len(calls) < MaxCalls
  /\ mem[data_in].type = "MagneticField"
  /\ mem' = doTransformMagneticField(mem, data_in, data_out, buffer[f])
  /\ calls' = Append(calls, Call(data_in, data_out, f))
  /\ UNCHANGED <<buffer, job, claimed, local>>

Next ==
  \/ \E data_in \in Slots, data_out \in Slots, f \in Frames : DoTransformCloud(data_in, data_out, f)
  \/ \E data_in \in Slots, data_out \in Slots, f \in Frames : DoTransformImu(data_in, data_out, f)
  \/ \E data_in \in Slots, data_out \in Slots, f \in Frames : DoTransformMag(data_in, data_out, f)

Spec == Init /\ [][Next]_vars

\* ------------------------------------------- the loop of lines 79-84, split
\* One run of doTransform<PointCloud2> whose loop iterations are taken in any
\* order by workers; a worker reads a point of an index nobody took, then
\* stores it.  claimed lists the indices in the order they were taken.
ParBegin(data_in, data_out, f) ==
  /\ calls = <<>>
  /\ mem[data_in].type = "PointCloud2"
  /\ mem' = CloudPrologue(mem, data_in, data_out, buffer[f])
  /\ job' = [active |-> TRUE, p_in |-> data_in, p_out |-> data_out, t |-> CloudAffine(buffer[f])]
  /\ calls' = Append(calls, Call(data_in, data_out, f))
  /\ UNCHANGED <<buffer, claimed, local>>

WorkerRead(w, i) ==
  /\ job.active
  /\ ~local[w].busy
  /\ i \in 1..Len(mem[job.p_in].data)
  /\ \A k \in 1..Len(claimed) : claimed[k] # i
  /\ claimed' = Append(claimed, i)
  /\ local' = [local EXCEPT ![w] = [busy |-> TRUE, i |-> i, point |-> PointRead(mem, job.p_in, i, job.t)]]
  /\ UNCHANGED <<mem, buffer, calls, job>>

WorkerWrite(w) ==
  /\ job.active
  /\ local[w].busy
  /\ mem' = PointStore(mem, job.p_out, local[w].i, local[w].point)
  /\ local' = [local EXCEPT ![w] = Idle]
  /\ UNCHANGED <<buffer, calls, job, claimed>>

InitPar == InitData /\ mem[1].type = "PointCloud2"

NextPar ==
  \/ \E data_in \in Slots, data_out \in Slots, f \in Frames : ParBegin(data_in, data_out, f)
  \/ \E w \in Workers, i \in 1..MaxPoints : WorkerRead(w, i)
  \/ \E w \in Workers : WorkerWrite(w)

SpecPar == InitPar /\ [][NextPar]_vars

ParDone == job.active /\ Len(claimed) = Len(mem[job.p_in].data) /\ \A w \in Workers : ~local[w].busy

\* ================================================================= claims
\* Reference geometry, independent of toRotationMatrix: the rotation of a unit
\* quaternion r acts on v as the vector part of r (0,v) conj(r).
RotateRef(r, v) ==
  LET p == QMul(QMul(r, Quat(Zero, v.x, v.y, v.z)), QConjugate(r))
  IN  Vec(p.x, p.y, p.z)
\* the rotation matrix R of r: column j is the image of the j-th basis vector
RotRef(r) ==
  LET c1 == RotateRef(r, Vec(One, Zero, Zero))
      c2 == RotateRef(r, Vec(Zero, One, Zero))
      c3 == RotateRef(r, Vec(Zero, Zero, One))
  IN  << <<c1.x, c2.x, c3.x>>, <<c1.y, c2.y, c3.y>>, <<c1.z, c2.z, c3.z>> >>
\* entry (i,j) of R * C * transpose(R), C read row-major from buf
CovRef(buf, R, i, j) == Sum3([k \in 1..3 |-> Sum3([l \in 1..3 |-> NMul(NMul(R[i][k], buf[3 * (k - 1) + l]), R[j][l])])])
CovIsRotated(out, in, r) == \A R \in {RotRef(r)} : \A i \in 1..3, j \in 1..3 : out[3 * (i - 1) + j] = CovRef(in, R, i, j)
XYZ(p) == Vec(p.x, p.y, p.z)

NCalls == Len(calls)
\* the memory after call k
After(k) == IF k = NCalls THEN mem ELSE calls[k + 1].before
TypeOf(k) == calls[k].before[calls[k].data_in].type
In(k) == calls[k].before[calls[k].data_in]
Out(k) == After(k)[calls[k].data_out]
RotOf(k) == calls[k].transform.transform.rotation
TransOf(k) == calls[k].transform.transform.translation
Chained(k) == k + 1 <= NCalls /\ calls[k + 1].data_in = calls[k].data_out
\* the call that led to this state, and the call before it
LastCall == {k \in 1..NCalls : k = NCalls}
LastPair == {k \in 1..NCalls : k + 1 = NCalls}

\* the rotations of the inputs are unit quaternions, as the contract requires
UnitRots == \A r \in Rots : SquaredNorm(r) = One

\* C1: after doTransform on a PointCloud2 the output has as many points as the
\* input and output point i is R * (input point i) + t, rotation first.
C1_PointsTransformed ==
  \A k \in LastCall : TypeOf(k) = "PointCloud2" =>
    /\ Len(Out(k).data) = Len(In(k).data)
    /\ \A i \in 1..Len(In(k).data) : XYZ(Out(k).data[i]) = VAdd(RotateRef(RotOf(k), XYZ(In(k).data[i])), TransOf(k))
\* 90 degrees about +Z with t = (1,0,0) has taken (1,0,0) to (1,1,0)
C1_Witness ==
  /\ NCalls = 1 /\ TypeOf(1) = "PointCloud2" /\ RotOf(1) = Z90 /\ TransOf(1) = Vec(One, Zero, Zero)
  /\ Len(In(1).data) >= 1 /\ XYZ(In(1).data[1]) = Vec(One, Zero, Zero)
  /\ XYZ(Out(1).data[1]) = Vec(One, One, Zero)

\* C2: transformCovariance writes R * C * transpose(R), the buffers read
\* row-major, for every covariance block it is called on, symmetric or not.
CovFields(type) == IF type = "Imu" THEN {"angular_velocity_covariance", "linear_acceleration_covariance", "orientation_covariance"} ELSE IF type = "MagneticField" THEN {"magnetic_field_covariance"} ELSE {}
C2_CovarianceRotated ==
  \A k \in LastCall : \A field \in CovFields(TypeOf(k)) : \A R \in {RotRef(RotOf(k))} : \A C \in {In(k)[field]} : \A i \in 1..3, j \in 1..3 :
    Out(k)[field][3 * (i - 1) + j] = Sum3([a \in 1..3 |-> Sum3([b \in 1..3 |-> NMul(NMul(R[i][a], C[3 * (a - 1) + b]), R[j][b])])])
\* 90 degrees about +Z has taken diag(1,2,3) to diag(2,1,3), and a
\* non-symmetric block has been rotated
C2_Witness ==
  /\ NCalls = 1 /\ TypeOf(1) = "MagneticField" /\ RotOf(1) = Z90
  /\ In(1).magnetic_field_covariance = Diag123
  /\ Out(1).magnetic_field_covariance = <<Two, Zero, Zero, Zero, One, Zero, Zero, Zero, Num(3)>>

\* C3: doTransform on an Imu: header from the transform, both vectors rotated
\* by R, orientation r q r^-1 (stated as out * r = r * q), the three
\* covariance blocks R * C * transpose(R) with the same r.
C3_ImuTransformed ==
  \A k \in LastCall : TypeOf(k) = "Imu" =>
    /\ Out(k).header = calls[k].transform.header
    /\ Out(k).angular_velocity = RotateRef(RotOf(k), In(k).angular_velocity)
    /\ Out(k).linear_acceleration = RotateRef(RotOf(k), In(k).linear_acceleration)
    /\ QMul(Out(k).orientation, RotOf(k)) = QMul(RotOf(k), In(k).orientation)
    /\ SquaredNorm(Out(k).orientation) = SquaredNorm(In(k).orientation)
    /\ CovIsRotated(Out(k).angular_velocity_covariance, In(k).angular_velocity_covariance, RotOf(k))
    /\ CovIsRotated(Out(k).linear_acceleration_covariance, In(k).linear_acceleration_covariance, RotOf(k))
    /\ CovIsRotated(Out(k).orientation_covariance, In(k).orientation_covariance, RotOf(k))
C3_Witness ==
  /\ NCalls = 1 /\ TypeOf(1) = "Imu" /\ RotOf(1) = Z90
  /\ In(1).orientation = D120 /\ Out(1).orientation # D120
  /\ In(1).angular_velocity = Vec(One, Two, Num(3)) /\ Out(1).angular_velocity = Vec(Num(-2), One, Num(3))
  /\ Out(1).header # In(1).header

\* C4: doTransform on a MagneticField: header from the transform, field
\* rotated by R, covariance R * C * transpose(R).
C4_MagTransformed ==
  \A k \in LastCall : TypeOf(k) = "MagneticField" =>
    /\ Out(k).header = calls[k].transform.header
    /\ Out(k).magnetic_field = RotateRef(RotOf(k), In(k).magnetic_field)
    /\ CovIsRotated(Out(k).magnetic_field_covariance, In(k).magnetic_field_covariance, RotOf(k))
C4_Witness ==
  /\ NCalls = 1 /\ TypeOf(1) = "MagneticField" /\ RotOf(1) = D120
  /\ In(1).magnetic_field = Vec(One, Two, Num(3)) /\ Out(1).magnetic_field = Vec(Num(3), One, Two)
  /\ In(1).magnetic_field_covariance = Dense /\ Out(1).header.frame_id \in Frames

\* C5: doTransform on a PointCloud2 changes only the header and x/y/z: the
\* output's stamp and frame id are the transform's, its layout and its other
\* channel are the input's, and a distinct input is left as it was.
C5_CloudFrame ==
  \A k \in LastCall : TypeOf(k) = "PointCloud2" =>
    /\ getTimestamp(Out(k)) = calls[k].transform.header.stamp
    /\ getFrameId(Out(k)) = calls[k].transform.header.frame_id
    /\ Out(k).header = calls[k].transform.header
    /\ Out(k).layout = In(k).layout
    /\ Out(k).type = In(k).type
    /\ Len(Out(k).data) = Len(In(k).data)
    /\ \A i \in 1..Len(In(k).data) : Out(k).data[i].c = In(k).data[i].c
    /\ calls[k].data_in # calls[k].data_out => After(k)[calls[k].data_in] = In(k)
\* a call into a distinct output that held another header, layout and data
C5_Witness ==
  /\ NCalls = 1 /\ TypeOf(1) = "PointCloud2" /\ calls[1].data_in # calls[1].data_out
  /\ calls[1].before[calls[1].data_out] = Stale("PointCloud2")
  /\ Len(In(1).data) = 2 /\ In(1).header = SensorHeader
  /\ getFrameId(Out(1)) = "odom" /\ Out(1).data # In(1).data

\* C6: for Imu and MagneticField the output of doTransform is the same for
\* every translation of the transform.
C6_TranslationIgnored ==
  \A k \in LastCall : TypeOf(k) \in {"Imu", "MagneticField"} =>
    \A tr \in Translations :
      doTransform(calls[k].before, calls[k].data_in, calls[k].data_out, [calls[k].transform EXCEPT !.transform.translation = tr])[calls[k].data_out] = Out(k)
C6_Witness ==
  /\ NCalls = 1 /\ TypeOf(1) = "Imu" /\ RotOf(1) = D120inv /\ TransOf(1) = Vec(Zero, Two, Num(-1))
  /\ Out(1).linear_acceleration # In(1).linear_acceleration

\* C7: a call whose output is its input leaves the object as a call into a
\* distinct output object would leave that object, whatever it held before.
Olds(type) == {Stale(type)} \cup {d \in Inputs : d.type = type}
C7_MutationSafe ==
  \A k \in LastCall : calls[k].data_in = calls[k].data_out =>
    \A old \in Olds(TypeOf(k)) : \A s \in Slots : s # calls[k].data_in =>
      doTransform([calls[k].before EXCEPT ![s] = old], calls[k].data_in, s, calls[k].transform)[s] = Out(k)
C7_Witness ==
  /\ NCalls = 1 /\ calls[1].data_in = 1 /\ calls[1].data_out = 1 /\ TypeOf(1) = "PointCloud2"
  /\ RotOf(1) = D120 /\ Len(In(1).data) = 2 /\ XYZ(Out(1).data[2]) # XYZ(In(1).data[2])

\* C8: doTransform with A and then with B on the result gives the x/y/z of one
\* doTransform with rotation B.rot * A.rot and translation
\* B.rot * A.trans + B.trans.
Composed(k) == [calls[k + 1].transform EXCEPT !.transform.rotation = QMul(RotOf(k + 1), RotOf(k)), !.transform.translation = VAdd(RotateRef(RotOf(k + 1), TransOf(k)), TransOf(k + 1))]
C8_Composition ==
  \A k \in LastPair : (Chained(k) /\ TypeOf(k) = "PointCloud2") =>
    LET once == doTransform(calls[k].before, calls[k].data_in, calls[k].data_out, Composed(k))[calls[k].data_out]
    IN  /\ Len(Out(k + 1).data) = Len(once.data)
        /\ \A i \in 1..Len(once.data) : XYZ(Out(k + 1).data[i]) = XYZ(once.data[i])
C8_Witness ==
  /\ NCalls = 2 /\ Chained(1) /\ TypeOf(1) = "PointCloud2"
  /\ RotOf(1) = Z90 /\ RotOf(2) = D120 /\ TransOf(1) # TransOf(2)
  /\ Len(In(1).data) = 2 /\ calls[1].data_in # calls[1].data_out

\* C9: the Imu doTransform with rotation r and then with inverse(r) recovers
\* the orientation, up to sign.
QNeg(q) == Quat(NNeg(q.w), NNeg(q.x), NNeg(q.y), NNeg(q.z))
C9_OrientationRoundTrip ==
  \A k \in LastPair : (Chained(k) /\ TypeOf(k) = "Imu" /\ RotOf(k + 1) = QInverse(RotOf(k))) =>
    Out(k + 1).orientation \in {In(k).orientation, QNeg(In(k).orientation)}
C9_Witness ==
  /\ NCalls = 2 /\ Chained(1) /\ TypeOf(1) = "Imu"
  /\ RotOf(1) = Z90 /\ RotOf(2) = Z90inv
  /\ In(1).orientation = D120 /\ Out(1).orientation # D120 /\ Out(2).orientation = D120

\* C10: whatever the order in which the indices were taken and however the
\* workers' reads and stores interleaved, the finished run left what the
\* index-ascending loop leaves, aliased or not; and output i does not change
\* when the input point at another index does.
AltPoint == [x |-> Num(-4), y |-> Num(9), z |-> Num(1), c |-> Num(0)]
C10_OrderIndependent ==
  ParDone =>
    /\ mem = doTransformPointCloud2(calls[1].before, calls[1].data_in, calls[1].data_out, calls[1].transform)
    /\ \A i \in 1..Len(In(1).data), j \in 1..Len(In(1).data) : i # j =>
         doTransformPointCloud2([calls[1].before EXCEPT ![calls[1].data_in].data[j] = AltPoint], calls[1].data_in, calls[1].data_out, calls[1].transform)[calls[1].data_out].data[i] = mem[calls[1].data_out].data[i]
\* an aliased run finished after index 2 was taken before index 1
C10_Witness ==
  /\ ParDone /\ job.p_in = job.p_out /\ Len(claimed) >= 2 /\ claimed[1] = 2 /\ claimed[2] = 1
  /\ mem[job.p_out].data # calls[1].before[job.p_in].data

====
